---- MODULE Spec2Model ----
(***************************************************************************)
(* The sync-handler cache index (cacheIndex) of wp-calypso: a list of      *)
(* records kept under the `records-list` key of a localforage store, next  *)
(* to the record payloads that are stored under their own keys.            *)
(*                                                                         *)
(* A localforage call is issued by the code and settles later, in a task   *)
(* of its own: it either applies its effect and resolves, or fails and     *)
(* leaves the store alone.  The promise callbacks chained on a call run as *)
(* microtasks right after it settles, so a settle and the callbacks it     *)
(* triggers form one step.  Calls that are in flight settle in any order.  *)
(*                                                                         *)
(* Spec is the concurrent use of the cache by two tasks, SpecSeq its       *)
(* sequential use on a store whose reads may fail, SpecFail its sequential *)
(* use on a store whose writes may fail as well.                           *)
(***************************************************************************)
EXTENDS Integers, Sequences, FiniteSets, TLC

-----------------------------------------------------------------------------
(* Bounds *)

\* The clock (Date.now(), in days) runs from 0 to MaxClock.
MaxClock == 1

\* Number of calls made in a concurrent run.
MaxOps == 2

-----------------------------------------------------------------------------
(* Keys.  A key is the sequence of its characters, so that the regular     *)
(* expression can be evaluated on it.                                      *)

Prefix == <<"s", "y", "n", "c", "-", "r", "e", "c", "o", "r", "d", "-">>

RECORDS_LIST_KEY == <<"r", "e", "c", "o", "r", "d", "s", "-", "l", "i", "s", "t">>

\* \w of a JavaScript regular expression: [A-Za-z0-9_]
WordChars ==
    { "a", "b", "c", "d", "e", "f", "g", "h", "i", "j", "k", "l", "m",
      "n", "o", "p", "q", "r", "s", "t", "u", "v", "w", "x", "y", "z",
      "A", "B", "C", "D", "E", "F", "G", "H", "I", "J", "K", "L", "M",
      "N", "O", "P", "Q", "R", "S", "T", "U", "V", "W", "X", "Y", "Z",
      "0", "1", "2", "3", "4", "5", "6", "7", "8", "9", "_" }

\* /^sync-record-\w+$/ : the prefix, then one or more word characters, then
\* the end of the key.
SYNC_RECORD_REGEX(key) ==
    /\ Len(key) > Len(Prefix)
    /\ SubSeq(key, 1, Len(Prefix)) = Prefix
    /\ \A i \in (Len(Prefix) + 1)..Len(key) : key[i] \in WordChars

\* a test of the prefix alone
isSyncRecordKey_prefix(key) ==
    Len(key) >= Len(Prefix) /\ SubSeq(key, 1, Len(Prefix)) = Prefix

isSyncRecordKey(key) == SYNC_RECORD_REGEX(key)

\* The record keys the callers of the cache use: sync-record-a, sync-record-b
CacheKeys == { Prefix \o <<"a">>, Prefix \o <<"b">> }

\* Keys other users of the same store hold values under, none of them a
\* record key: sync-record-a- and sync-record- (no identifier)
ForeignKeys == { Prefix \o <<"a", "-">>, Prefix }

PayloadKeys == CacheKeys \cup ForeignKeys

StoreKeys == PayloadKeys \cup {RECORDS_LIST_KEY}

-----------------------------------------------------------------------------
(* Values *)

\* What getItem gives for a key the store does not hold
Null == [type |-> "null", v |-> <<>>]

\* An array value
Arr(s) == [type |-> "array", v |-> s]

\* A record payload, opaque to the cache
Payload == [type |-> "payload", v |-> <<>>]

\* A pageSeriesKey property that is not set
Undefined == "undefined"

\* A pageSeriesKey argument that is not given (the default, null)
NoSeries == "null"

\* Request parameters of clearPageSeries
ReqParams == [path : {"/posts", "/sites"}, next_page : {"none", "2"}]

\* omit( reqParams, 'next_page' )
omit(reqParams) == [path |-> reqParams.path]

\* generateKey of the sync-handler: a fingerprint of the parameters
generateKey(params) ==
    IF params.path = "/posts" THEN "sync-record-h1" ELSE "sync-record-h2"

PageSeriesKeys == { generateKey(omit(q)) : q \in ReqParams }

\* The default lifetime of pruneRecordsFrom
LIFETIME == "2 days"

\* ms( string ), in days
ms(str) == IF str = "2 days" THEN 2 ELSE IF str = "1 day" THEN 1 ELSE 0

\* The lifetime arguments: a number of days below the largest age there can
\* be, or the default string
Lifetimes ==
    [isNumber : {TRUE}, num : 0..(MaxClock - 1), str : {""}]
        \cup [isNumber : {FALSE}, num : {0}, str : {LIFETIME}]

\* The lifetime in days: a number as it is, a string through ms
LifetimeOf(lifetime) == IF lifetime.isNumber THEN lifetime.num ELSE ms(lifetime.str)

-----------------------------------------------------------------------------
(* lodash *)

\* The elements of a stored value: none unless it is an array
Elements(value) ==
    IF value.type = "array" THEN { value.v[i] : i \in 1..Len(value.v) } ELSE {}

\* filter that stops at the first element the predicate is false of
filter_takeWhile(collection, predicate) ==
    IF collection.type = "array"
    THEN LET n == Len(collection.v)
             stop == { i \in 1..n : ~predicate[collection.v[i]] }
             end == IF stop = {} THEN n
                    ELSE (CHOOSE i \in stop : \A j \in stop : i <= j) - 1
         IN SubSeq(collection.v, 1, end)
    ELSE <<>>

\* filter( collection, predicate ): the elements the predicate (a function
\* on the elements) is true of, in their order; an empty array when the
\* collection is null
filter(collection, predicate) ==
    IF collection.type = "array"
    THEN SelectSeq(collection.v, LAMBDA element : predicate[element])
    ELSE <<>>

\* difference that leaves the array as it is
difference_none(array, values) ==
    IF array.type = "array" THEN array.v ELSE <<>>

\* difference( array, values ): the elements of array that are not in
\* values, in their order; an empty array when array is null.  lodash
\* compares the records by identity; the records of one Index differ in
\* their keys, so comparing their contents gives the same.
difference(array, values) ==
    IF array.type = "array"
    THEN SelectSeq(array.v, LAMBDA r : \A i \in 1..Len(values) : values[i] # r)
    ELSE <<>>

-----------------------------------------------------------------------------
VARIABLES
    store,      \* the localforage store: key -> value, Null when absent
    now,        \* Date.now()
    ops,        \* the cacheIndex calls, one per caller task
    requests,   \* the setItem and removeItem calls in flight
    started     \* number of calls started in a concurrent run

vars == <<store, now, ops, requests, started>>

Procs == {1, 2}

NoKey == <<>>

Idle ==
    [ kind |-> "none", pc |-> "idle", key |-> NoKey, series |-> Undefined,
      lifetime |-> 0, at |-> 0, records |-> Null,
      removedRecords |-> <<>>, retainedRecords |-> <<>>, result |-> Null,
      snapshot |-> {}, failed |-> "none", alone |-> FALSE ]

\* A call whose promise has settled, or that was never made
Settled == {"idle", "resolved", "rejected"}

\* A call that waits for a store call: the getItem or keys() it reads with,
\* or the writes its Promise.all (or returned promise) is made of.  The pc
\* "hung" is a call whose promise is pending with nothing left to settle it.
Running == {"getItem", "keys", "all"}

Init ==
    /\ store = [k \in StoreKeys |-> IF k \in ForeignKeys THEN Payload ELSE Null]
    /\ now = 0
    /\ ops = [p \in Procs |-> Idle]
    /\ requests = {}
    /\ started = 0

\* keys() of the store
keys == { k \in StoreKeys : store[k] # Null }

-----------------------------------------------------------------------------
(* The caller side *)

\* A store call of an earlier call of task p stays in flight when the task
\* makes its next call; nothing waits for it any more.
Detach(r, p) ==
    IF r.owner = p THEN [r EXCEPT !.owner = 0, !.awaited = FALSE] ELSE r

\* Task p may make a call.  In a sequential run (seq) one task makes the
\* calls, and only once it has the result of the previous call; in a
\* concurrent run a task calls when its own previous call has settled.
MayCall(p, seq) ==
    IF seq
    THEN p = 1 /\ \A q \in Procs : ops[q].pc = "idle"
    ELSE ops[p].pc \in Settled /\ started < MaxOps

\* Task p makes the call described by op.
Call(p, seq, op) ==
    /\ MayCall(p, seq)
    /\ ops' = [ops EXCEPT ![p] = [op EXCEPT !.alone = seq /\ requests = {}]]
    /\ requests' = { Detach(r, p) : r \in requests }
    /\ started' = IF seq THEN started ELSE started + 1
    /\ UNCHANGED <<store, now>>

\* Date.now() advances.
Tick ==
    /\ now < MaxClock
    /\ now' = now + 1
    /\ UNCHANGED <<store, ops, requests, started>>

\* Task p takes the result of its settled call.
Return(p) ==
    /\ ops[p].pc \in {"resolved", "rejected"}
    /\ ops' = [ops EXCEPT ![p] = Idle]
    /\ requests' = { Detach(r, p) : r \in requests }
    /\ UNCHANGED <<store, now, started>>

\* The user of the cache stores a payload under a record key
\* (localforage.setItem outside cacheIndex), between two cacheIndex calls.
StorePayload(k) ==
    /\ \A q \in Procs : ops[q].pc = "idle"
    /\ store[k] = Null
    /\ store' = [store EXCEPT ![k] = Payload]
    /\ UNCHANGED <<now, ops, requests, started>>

-----------------------------------------------------------------------------
(* cacheIndex *)

\* getAll: localforage.getItem( RECORDS_LIST_KEY ) is issued
getAll(p, seq) ==
    Call(p, seq, [Idle EXCEPT !.kind = "getAll", !.pc = "getItem"])

\* a getAll that resolves with an empty array in place of null
getAll_resolves_orEmpty(p) ==
    /\ ops[p].kind = "getAll" /\ ops[p].pc = "getItem"
    /\ ops' = [ops EXCEPT ![p].pc = "resolved", ![p].snapshot = keys,
                          ![p].records = store[RECORDS_LIST_KEY],
                          ![p].result = Arr(filter(store[RECORDS_LIST_KEY],
                                          [rec \in Elements(store[RECORDS_LIST_KEY]) |-> TRUE]))]
    /\ UNCHANGED <<store, now, requests, started>>

\* the getItem of getAll resolves with the stored value
getAll_resolves(p) ==
    /\ ops[p].kind = "getAll" /\ ops[p].pc = "getItem"
    /\ ops' = [ops EXCEPT ![p].pc = "resolved", ![p].snapshot = keys,
                          ![p].records = store[RECORDS_LIST_KEY],
                          ![p].result = store[RECORDS_LIST_KEY]]
    /\ UNCHANGED <<store, now, requests, started>>

\* dropMatches without the filter on the key
dropMatches_keepAll(records, key) ==
    filter(records, [record \in Elements(records) |-> TRUE])

\* dropMatches without negate: the records of the key are the ones kept
dropMatches_matching(records, key) ==
    filter(records, [rec \in Elements(records) |-> rec.key = key])

\* dropMatches of getAllExcluding
dropMatches(records, key) ==
    filter(records, [record \in Elements(records) |-> ~(record.key = key)])

getAllExcluding(p, key, seq) ==
    Call(p, seq, [Idle EXCEPT !.kind = "getAllExcluding", !.pc = "getItem", !.key = key])

getAllExcluding_resolves(p) ==
    /\ ops[p].kind = "getAllExcluding" /\ ops[p].pc = "getItem"
    /\ ops' = [ops EXCEPT ![p].pc = "resolved", ![p].snapshot = keys,
                          ![p].records = store[RECORDS_LIST_KEY],
                          ![p].result = Arr(dropMatches(store[RECORDS_LIST_KEY], ops[p].key))]
    /\ UNCHANGED <<store, now, requests, started>>

\* A setItem call of task p that its promise chain waits for
SetItem(p, key, value) ==
    [owner |-> p, type |-> "setItem", key |-> key, value |-> value, awaited |-> TRUE]

\* A removeItem call of task p
RemoveItem(p, key, awaited) ==
    [owner |-> p, type |-> "removeItem", key |-> key, value |-> Null, awaited |-> awaited]

\* addItem: getAllExcluding( key ) is called
addItem(p, key, pageSeriesKey, seq) ==
    Call(p, seq, [Idle EXCEPT !.kind = "addItem", !.pc = "getItem", !.key = key,
                              !.series = pageSeriesKey])

\* a record that drops the pageSeriesKey it was given
NewRecord_noSeries(key, pageSeriesKey, timestamp) ==
    [ key |-> key, timestamp |-> timestamp, pageSeriesKey |-> Undefined ]

\* the record addItem appends
NewRecord(key, pageSeriesKey, timestamp) ==
    [ key |-> key, timestamp |-> timestamp,
      pageSeriesKey |-> IF pageSeriesKey # NoSeries THEN pageSeriesKey ELSE Undefined ]

\* a then-callback of addItem that writes the other records back without
\* the new one
addItem_then_noAppend(p) ==
    /\ ops[p].kind = "addItem" /\ ops[p].pc = "getItem"
    /\ LET records == dropMatches(store[RECORDS_LIST_KEY], ops[p].key)
       IN /\ requests' = requests \cup {SetItem(p, RECORDS_LIST_KEY, Arr(records))}
          /\ ops' = [ops EXCEPT ![p].pc = "all", ![p].at = now, ![p].snapshot = keys,
                                ![p].records = store[RECORDS_LIST_KEY]]
    /\ UNCHANGED <<store, now, started>>

\* a then-callback of addItem that appends to the whole Index, the entry of
\* the key included
addItem_then_getAll(p) ==
    /\ ops[p].kind = "addItem" /\ ops[p].pc = "getItem"
    /\ LET records == filter(store[RECORDS_LIST_KEY],
                             [rec \in Elements(store[RECORDS_LIST_KEY]) |-> TRUE])
           record == NewRecord(ops[p].key, ops[p].series, now)
       IN /\ requests' = requests \cup
                 {SetItem(p, RECORDS_LIST_KEY, Arr(records \o <<record>>))}
          /\ ops' = [ops EXCEPT ![p].pc = "all", ![p].at = now,
                                ![p].snapshot = keys, ![p].records = store[RECORDS_LIST_KEY]]
    /\ UNCHANGED <<store, now, started>>

\* a then-callback of addItem that puts the new record first
addItem_then_prepend(p) ==
    /\ ops[p].kind = "addItem" /\ ops[p].pc = "getItem"
    /\ LET records == dropMatches(store[RECORDS_LIST_KEY], ops[p].key)
           record == NewRecord(ops[p].key, ops[p].series, now)
       IN /\ requests' = requests \cup
                 {SetItem(p, RECORDS_LIST_KEY, Arr(<<record>> \o records))}
          /\ ops' = [ops EXCEPT ![p].pc = "all", ![p].at = now,
                                ![p].snapshot = keys, ![p].records = store[RECORDS_LIST_KEY]]
    /\ UNCHANGED <<store, now, started>>

\* the then-callback of addItem
addItem_then(p) ==
    /\ ops[p].kind = "addItem" /\ ops[p].pc = "getItem"
    /\ LET records == dropMatches(store[RECORDS_LIST_KEY], ops[p].key)
           record == NewRecord(ops[p].key, ops[p].series, now)
       IN /\ requests' = requests \cup
                 {SetItem(p, RECORDS_LIST_KEY, Arr(records \o <<record>>))}
          /\ ops' = [ops EXCEPT ![p].pc = "all", ![p].at = now,
                                ![p].snapshot = keys, ![p].records = store[RECORDS_LIST_KEY]]
    /\ UNCHANGED <<store, now, started>>

removeItem(p, key, seq) ==
    Call(p, seq, [Idle EXCEPT !.kind = "removeItem", !.pc = "getItem", !.key = key])

\* a then-callback of removeItem that deletes the payload of the key as well
removeItem_then_withPayload(p) ==
    /\ ops[p].kind = "removeItem" /\ ops[p].pc = "getItem"
    /\ LET records == dropMatches(store[RECORDS_LIST_KEY], ops[p].key)
       IN /\ requests' = requests \cup {SetItem(p, RECORDS_LIST_KEY, Arr(records)),
                                        RemoveItem(p, ops[p].key, TRUE)}
          /\ ops' = [ops EXCEPT ![p].pc = "all", ![p].snapshot = keys,
                                ![p].records = store[RECORDS_LIST_KEY]]
    /\ UNCHANGED <<store, now, started>>

\* the then-callback of removeItem
removeItem_then(p) ==
    /\ ops[p].kind = "removeItem" /\ ops[p].pc = "getItem"
    /\ LET records == dropMatches(store[RECORDS_LIST_KEY], ops[p].key)
       IN /\ requests' = requests \cup {SetItem(p, RECORDS_LIST_KEY, Arr(records))}
          /\ ops' = [ops EXCEPT ![p].pc = "all", ![p].snapshot = keys,
                                ![p].records = store[RECORDS_LIST_KEY]]
    /\ UNCHANGED <<store, now, started>>

\* dropElders that also removes a record whose age is the lifetime
dropElders_inclusive(records, lifetime, t) ==
    LET removedRecords ==
            filter(records, [rec \in Elements(records) |-> t - lifetime >= rec.timestamp])
    IN [ removedRecords |-> removedRecords,
         retainedRecords |-> difference(records, removedRecords) ]

\* dropElders of dropOlderThan, evaluated at time t
dropElders(records, lifetime, t) ==
    LET removedRecords ==
            filter(records, [rec \in Elements(records) |-> t - lifetime > rec.timestamp])
    IN [ removedRecords |-> removedRecords,
         retainedRecords |-> difference(records, removedRecords) ]

dropOlderThan(p, lifetime, seq) ==
    Call(p, seq, [Idle EXCEPT !.kind = "dropOlderThan", !.pc = "getItem",
                              !.lifetime = lifetime])

\* a dropOlderThan that persists the records it retains
dropOlderThan_resolves_persist(p) ==
    /\ ops[p].kind = "dropOlderThan" /\ ops[p].pc = "getItem"
    /\ LET data == dropElders(store[RECORDS_LIST_KEY], ops[p].lifetime, now)
       IN /\ requests' = requests \cup
                 {SetItem(0, RECORDS_LIST_KEY, Arr(data.retainedRecords))}
          /\ ops' = [ops EXCEPT ![p].pc = "resolved", ![p].at = now,
                                ![p].snapshot = keys,
                                ![p].records = store[RECORDS_LIST_KEY],
                                ![p].removedRecords = data.removedRecords,
                                ![p].retainedRecords = data.retainedRecords]
    /\ UNCHANGED <<store, now, started>>

dropOlderThan_resolves(p) ==
    /\ ops[p].kind = "dropOlderThan" /\ ops[p].pc = "getItem"
    /\ LET data == dropElders(store[RECORDS_LIST_KEY], ops[p].lifetime, now)
       IN ops' = [ops EXCEPT ![p].pc = "resolved", ![p].at = now,
                             ![p].snapshot = keys,
                          ![p].records = store[RECORDS_LIST_KEY],
                             ![p].removedRecords = data.removedRecords,
                             ![p].retainedRecords = data.retainedRecords]
    /\ UNCHANGED <<store, now, requests, started>>

-----------------------------------------------------------------------------
(* Bulk removal *)

\* droppedPromises of removeRecordsByList: one removeItem call per removed
\* record.  The map callback has a block body and no return, so the array
\* handed to Promise.all holds undefined in place of the promises: the calls
\* are made and nothing waits for them.
droppedPromises(p, removedRecords) ==
    { RemoveItem(p, removedRecords[i].key, FALSE) : i \in 1..Len(removedRecords) }

\* removeRecordsByList without the early return on an empty removal
removeRecordsByList_noGuard(p, data) ==
    [calls |-> droppedPromises(p, data.removedRecords)
                   \cup {SetItem(p, RECORDS_LIST_KEY, Arr(data.retainedRecords))},
     pc |-> "all"]

\* The executor of removeRecordsByList, run by task p on data: the store
\* calls it makes and where it leaves the promise.  With nothing to remove
\* it returns without calling resolve.
removeRecordsByList(p, data) ==
    IF Len(data.removedRecords) = 0
    THEN [calls |-> {}, pc |-> "hung"]
    ELSE [calls |-> droppedPromises(p, data.removedRecords)
                        \cup {SetItem(p, RECORDS_LIST_KEY, Arr(data.retainedRecords))},
          pc |-> "all"]

\* pruneRecordsFrom: dropOlderThan( lifetime ) is called
pruneRecordsFrom(p, lifetime, seq) ==
    Call(p, seq, [Idle EXCEPT !.kind = "pruneRecordsFrom", !.pc = "getItem",
                              !.lifetime = LifetimeOf(lifetime)])

\* dropOlderThan resolves and removeRecordsByList runs on its result
pruneRecordsFrom_then(p) ==
    /\ ops[p].kind = "pruneRecordsFrom" /\ ops[p].pc = "getItem"
    /\ LET data == dropElders(store[RECORDS_LIST_KEY], ops[p].lifetime, now)
           next == removeRecordsByList(p, data)
       IN /\ requests' = requests \cup next.calls
          /\ ops' = [ops EXCEPT ![p].pc = next.pc, ![p].at = now,
                                ![p].snapshot = keys,
                          ![p].records = store[RECORDS_LIST_KEY],
                                ![p].removedRecords = data.removedRecords,
                                ![p].retainedRecords = data.retainedRecords]
    /\ UNCHANGED <<store, now, started>>

\* pickPageSeries that takes the records of no series along
pickPageSeries_ungrouped(records, pageSeriesKey) ==
    LET removedRecords ==
            filter(records, [record \in Elements(records) |->
                                 record.pageSeriesKey = pageSeriesKey
                                     \/ record.pageSeriesKey = Undefined])
    IN [ removedRecords |-> removedRecords,
         retainedRecords |-> difference(records, removedRecords) ]

\* pickPageSeries of clearPageSeries
pickPageSeries(records, pageSeriesKey) ==
    LET removedRecords ==
            filter(records, [record \in Elements(records) |->
                                 record.pageSeriesKey = pageSeriesKey])
    IN [ removedRecords |-> removedRecords,
         retainedRecords |-> difference(records, removedRecords) ]

\* clearPageSeries: the key of the series is derived and getAll is called
clearPageSeries(p, reqParams, seq) ==
    Call(p, seq, [Idle EXCEPT !.kind = "clearPageSeries", !.pc = "getItem",
                              !.series = generateKey(omit(reqParams))])

\* getAll resolves and removeRecordsByList runs on the picked records
clearPageSeries_then(p) ==
    /\ ops[p].kind = "clearPageSeries" /\ ops[p].pc = "getItem"
    /\ LET data == pickPageSeries(store[RECORDS_LIST_KEY], ops[p].series)
           next == removeRecordsByList(p, data)
       IN /\ requests' = requests \cup next.calls
          /\ ops' = [ops EXCEPT ![p].pc = next.pc,
                                ![p].snapshot = keys,
                          ![p].records = store[RECORDS_LIST_KEY],
                                ![p].removedRecords = data.removedRecords,
                                ![p].retainedRecords = data.retainedRecords]
    /\ UNCHANGED <<store, now, started>>

\* clearAll: localforage.keys() is called
clearAll(p, seq) ==
    Call(p, seq, [Idle EXCEPT !.kind = "clearAll", !.pc = "keys"])

\* the then-callback of clearAll
clearAll_then(p) ==
    /\ ops[p].kind = "clearAll" /\ ops[p].pc = "keys"
    /\ LET syncHandlerKeys == { key \in keys : isSyncRecordKey(key) }
           itemsPromises == { RemoveItem(p, key, TRUE) : key \in syncHandlerKeys }
           recordsPromise == RemoveItem(p, RECORDS_LIST_KEY, TRUE)
       IN requests' = requests \cup itemsPromises \cup {recordsPromise}
    /\ ops' = [ops EXCEPT ![p].pc = "all", ![p].snapshot = keys]
    /\ UNCHANGED <<store, now, started>>

-----------------------------------------------------------------------------
(* The store settles the calls *)

\* Where a failed store call leaves the promise of the call of task p.  The
\* promises clearPageSeries and removeRecordsByList construct are settled by
\* resolve alone: a rejection inside them reaches nobody.
OnRejection(p) ==
    IF ops[p].kind = "clearPageSeries"
           \/ (ops[p].kind = "pruneRecordsFrom" /\ ops[p].pc = "all")
    THEN "hung"
    ELSE "rejected"

\* the getItem a call waits for fails
getItem_rejects(p) ==
    /\ ops[p].pc = "getItem"
    /\ ops' = [ops EXCEPT ![p].pc = OnRejection(p), ![p].failed = "read"]
    /\ UNCHANGED <<store, now, requests, started>>

\* the keys() clearAll waits for fails
keys_rejects(p) ==
    /\ ops[p].pc = "keys"
    /\ ops' = [ops EXCEPT ![p].pc = OnRejection(p), ![p].failed = "read"]
    /\ UNCHANGED <<store, now, requests, started>>

\* The calls of task p that its Promise.all (or returned promise) waits for
Awaited(p, reqs) == { r \in reqs : r.owner = p /\ r.awaited }

\* a setItem or removeItem in flight is applied and resolves
request_resolves(r) ==
    /\ r \in requests
    /\ store' = [store EXCEPT ![r.key] = IF r.type = "setItem" THEN r.value ELSE Null]
    /\ requests' = requests \ {r}
    /\ ops' = IF r.awaited /\ ops[r.owner].pc = "all" /\ Awaited(r.owner, requests') = {}
              THEN [ops EXCEPT ![r.owner].pc = "resolved"]
              ELSE ops
    /\ UNCHANGED <<now, started>>

\* a setItem or removeItem in flight fails; the store stays as it is
request_rejects(r) ==
    /\ r \in requests
    /\ requests' = requests \ {r}
    /\ ops' = IF r.owner = 0 THEN ops
              ELSE IF r.awaited /\ ops[r.owner].pc = "all"
              THEN [ops EXCEPT ![r.owner].pc = OnRejection(r.owner),
                               ![r.owner].failed = "write"]
              ELSE [ops EXCEPT ![r.owner].failed = "write"]
    /\ UNCHANGED <<store, now, started>>

-----------------------------------------------------------------------------
(* Specifications *)

\* The calls that only read the store
Readers(p, seq) ==
    \/ getAll(p, seq)
    \/ getAll_resolves(p)
    \/ \E key \in CacheKeys : getAllExcluding(p, key, seq)
    \/ getAllExcluding_resolves(p)
    \/ \E lifetime \in Lifetimes : dropOlderThan(p, LifetimeOf(lifetime), seq)
    \/ dropOlderThan_resolves(p)

\* The calls that write the store
Writers(p, seq) ==
    \/ \E key \in CacheKeys, pageSeriesKey \in PageSeriesKeys \cup {NoSeries} :
           addItem(p, key, pageSeriesKey, seq)
    \/ addItem_then(p)
    \/ \E key \in CacheKeys : removeItem(p, key, seq)
    \/ removeItem_then(p)
    \/ \E lifetime \in Lifetimes : pruneRecordsFrom(p, lifetime, seq)
    \/ pruneRecordsFrom_then(p)
    \/ \E reqParams \in ReqParams : clearPageSeries(p, reqParams, seq)
    \/ clearPageSeries_then(p)
    \/ clearAll(p, seq)
    \/ clearAll_then(p)

\* The store answers a call of task p, or one nothing waits for; a read may
\* fail
Store(p) ==
    \/ getItem_rejects(p)
    \/ keys_rejects(p)
    \/ \E r \in requests : r.owner \in {0, p} /\ request_resolves(r)

\* The store fails a write
WriteFails == \E r \in requests : request_rejects(r)

\* Concurrent use: the tasks make the writing calls independently of each
\* other, MaxOps calls in all.
Next ==
    \/ Tick
    \/ \E p \in Procs : Writers(p, FALSE) \/ Store(p)
    \/ WriteFails

Spec == Init /\ [][Next]_vars

\* Sequential use: a call is made once the result of the previous one is
\* there, and the payloads are stored between the calls.
NextSeq ==
    \/ Tick
    \/ \E k \in CacheKeys : StorePayload(k)
    \/ \E p \in Procs : Readers(p, TRUE) \/ Writers(p, TRUE) \/ Store(p) \/ Return(p)

SpecSeq == Init /\ [][NextSeq]_vars

\* Sequential use of a store whose writes may fail as well
NextFail == NextSeq \/ WriteFails

SpecFail == Init /\ [][NextFail]_vars

\* Sequential use by a careful caller of a store that never fails: the
\* payload of a key is in the store when addItem is called for it.
NextCare ==
    \/ Tick
    \/ \E k \in CacheKeys : StorePayload(k)
    \/ \E p \in Procs :
           \/ Readers(p, TRUE)
           \/ \E key \in CacheKeys, pageSeriesKey \in PageSeriesKeys \cup {NoSeries} :
                  store[key] = Payload /\ addItem(p, key, pageSeriesKey, TRUE)
           \/ addItem_then(p)
           \/ \E key \in CacheKeys : removeItem(p, key, TRUE)
           \/ removeItem_then(p)
           \/ \E lifetime \in Lifetimes : pruneRecordsFrom(p, lifetime, TRUE)
           \/ pruneRecordsFrom_then(p)
           \/ \E reqParams \in ReqParams : clearPageSeries(p, reqParams, TRUE)
           \/ clearPageSeries_then(p)
           \/ clearAll(p, TRUE)
           \/ clearAll_then(p)
           \/ \E r \in requests : r.owner \in {0, p} /\ request_resolves(r)
           \/ Return(p)

SpecCare == Init /\ [][NextCare]_vars

TypeOK ==
    /\ now \in 0..MaxClock
    /\ started \in 0..MaxOps
    /\ \A p \in Procs : ops[p].pc \in Settled \cup Running \cup {"hung"}

-----------------------------------------------------------------------------
(* Properties *)

\* The persisted Index
Index == store[RECORDS_LIST_KEY]

\* The entries of a stored value: none when the value is absent
ListOf(value) == IF value.type = "array" THEN value.v ELSE <<>>

\* The keys of the entries of a list
KeysOf(list) == { list[i].key : i \in 1..Len(list) }

\* The store calls of the call of task p that are in flight
Calls(p) == { r \in requests : r.owner = p }

BulkKinds == {"pruneRecordsFrom", "clearPageSeries"}

\* The call of task p has run its callback on the Index it read
HasRead(p) == ops[p].pc \notin {"idle", "getItem", "keys"} /\ ops[p].failed # "read"

\* C1: in sequential use the persisted Index holds at most one entry per
\* key, and once an addItem( key ) that started with no store call in flight
\* has resolved, the Index holds exactly one entry for key and is as long as
\* the number of distinct keys among the entries it read and key: a key that
\* was there is replaced, not appended.
C1_Uniqueness ==
    /\ \A i, j \in 1..Len(ListOf(Index)) :
           ListOf(Index)[i].key = ListOf(Index)[j].key => i = j
    /\ \A p \in Procs :
           (ops[p].kind = "addItem" /\ ops[p].pc = "resolved" /\ ops[p].alone) =>
               /\ Cardinality({ i \in 1..Len(ListOf(Index)) :
                                    ListOf(Index)[i].key = ops[p].key }) = 1
               /\ Len(ListOf(Index)) =
                      Cardinality(KeysOf(ListOf(ops[p].records)) \cup {ops[p].key})

\* An addItem of a key the Index already listed, next to another key, has
\* resolved.
C1_Witness ==
    \E p \in Procs :
        /\ ops[p].kind = "addItem" /\ ops[p].pc = "resolved" /\ ops[p].alone
        /\ ops[p].key \in KeysOf(ListOf(ops[p].records))
        /\ Len(ListOf(ops[p].records)) = 2
        /\ Len(ListOf(Index)) = 2

\* C2: once a pruneRecordsFrom( L ) that ran alone has resolved and each of
\* its store calls has settled without failure, the persisted Index is the
\* entries it read whose age now - timestamp is at most L, in their order,
\* no payload is stored under the key of an entry older than L, and every
\* payload that was stored under the key of a retained entry still is.
C2_PruneEffect ==
    \A p \in Procs :
        ( /\ ops[p].kind = "pruneRecordsFrom" /\ ops[p].pc = "resolved"
          /\ ops[p].alone /\ ops[p].failed = "none" /\ Calls(p) = {} ) =>
            LET records == ListOf(ops[p].records)
                Expired(rec) == ops[p].at - rec.timestamp > ops[p].lifetime
            IN /\ Index = Arr(SelectSeq(records, LAMBDA rec : ~Expired(rec)))
               /\ \A i \in 1..Len(records) :
                      IF Expired(records[i])
                      THEN store[records[i].key] = Null
                      ELSE records[i].key \in ops[p].snapshot
                               => store[records[i].key] = Payload

\* A prune that removed one entry with its payload and retained another
\* with its payload has resolved and all its calls have settled.
C2_Witness ==
    \E p \in Procs :
        /\ ops[p].kind = "pruneRecordsFrom" /\ ops[p].pc = "resolved"
        /\ ops[p].alone /\ ops[p].failed = "none" /\ Calls(p) = {}
        /\ Len(ops[p].removedRecords) = 1 /\ Len(ops[p].retainedRecords) = 1
        /\ CacheKeys \subseteq ops[p].snapshot
        /\ Len(ListOf(Index)) = 1

\* C3: when a pruneRecordsFrom or clearPageSeries has resolved, none of the
\* payload deletions it issued is still in flight.
C3_CompletionAfterDeletions ==
    \A p \in Procs :
        (ops[p].kind \in BulkKinds /\ ops[p].pc = "resolved") =>
            \A r \in Calls(p) : r.type # "removeItem"

\* C4: when a payload deletion or the Index rewrite of removeRecordsByList
\* has failed and all the calls it issued have settled, the result of the
\* operation is rejected.
C4_BulkFailureSurfaced ==
    \A p \in Procs :
        (ops[p].kind \in BulkKinds /\ ops[p].failed = "write" /\ Calls(p) = {}) =>
            ops[p].pc = "rejected"

\* C5: when the store call that reads the Index or lists the keys has
\* failed, the result of the operation is rejected and the operation has no
\* store call in flight.
C5_ReadFailurePropagates ==
    \A p \in Procs :
        ops[p].failed = "read" => (ops[p].pc = "rejected" /\ Calls(p) = {})

\* C6: when pruneRecordsFrom or clearPageSeries has found nothing to remove,
\* its result is resolved, or a store call whose settling resolves it is in
\* flight.
C6_EmptyRemovalResolves ==
    \A p \in Procs :
        (ops[p].kind \in BulkKinds /\ HasRead(p) /\ Len(ops[p].removedRecords) = 0) =>
            (ops[p].pc = "resolved" \/ Awaited(p, requests) # {})

\* C7: a pruneRecordsFrom that read an Index in which no entry has
\* now - timestamp > lifetime issues no store call: no write of the Index
\* key, no payload deletion; when it ran alone the Index and the set of
\* stored keys are as it read them.
C7_PruneNothingExpired ==
    \A p \in Procs :
        ( /\ ops[p].kind = "pruneRecordsFrom" /\ HasRead(p)
          /\ \A i \in 1..Len(ListOf(ops[p].records)) :
                 ops[p].at - ListOf(ops[p].records)[i].timestamp <= ops[p].lifetime ) =>
            /\ Calls(p) = {}
            /\ ops[p].alone => (Index = ops[p].records /\ keys = ops[p].snapshot)

\* A prune has read an Index of two entries with stored payloads and found
\* none of them expired.
C7_Witness ==
    \E p \in Procs :
        /\ ops[p].kind = "pruneRecordsFrom" /\ HasRead(p) /\ ops[p].alone
        /\ Len(ListOf(ops[p].records)) = 2
        /\ Len(ops[p].removedRecords) = 0
        /\ CacheKeys \subseteq ops[p].snapshot

\* C8: once a clearPageSeries whose derived series key is A has run alone
\* and all its store calls have settled without failure, the Index is the
\* entries it read that are not tagged A, in their order; no payload is
\* stored under the key of an entry tagged A, and every other key holds a
\* payload exactly if it did before.
C8_GroupEvictionScope ==
    \A p \in Procs :
        ( /\ ops[p].kind = "clearPageSeries" /\ HasRead(p)
          /\ ops[p].alone /\ ops[p].failed = "none" /\ Calls(p) = {} ) =>
            LET records == ListOf(ops[p].records)
                Tagged(rec) == rec.pageSeriesKey = ops[p].series
            IN /\ ListOf(Index) = SelectSeq(records, LAMBDA rec : ~Tagged(rec))
               /\ \A k \in PayloadKeys :
                      IF \E i \in 1..Len(records) : records[i].key = k /\ Tagged(records[i])
                      THEN store[k] = Null
                      ELSE (store[k] # Null) <=> (k \in ops[p].snapshot)

\* A clearPageSeries has evicted one entry of its series and left an entry
\* of no series, both with a stored payload.
C8_Witness ==
    \E p \in Procs :
        /\ ops[p].kind = "clearPageSeries" /\ ops[p].pc = "resolved"
        /\ ops[p].alone /\ ops[p].failed = "none" /\ Calls(p) = {}
        /\ Len(ops[p].removedRecords) = 1 /\ Len(ops[p].retainedRecords) = 1
        /\ ops[p].retainedRecords[1].pageSeriesKey = Undefined
        /\ CacheKeys \subseteq ops[p].snapshot

\* C9: once a clearAll that ran alone has resolved, the store holds nothing
\* under sync-record-a and sync-record-b, listed in the Index or not, and
\* nothing under records-list, and it still holds the payloads under
\* sync-record-a- and sync-record-, which do not match the pattern.
C9_FullResetScope ==
    \A p \in Procs :
        (ops[p].kind = "clearAll" /\ ops[p].pc = "resolved" /\ ops[p].alone) =>
            /\ \A k \in CacheKeys : store[k] = Null
            /\ Index = Null
            /\ \A k \in ForeignKeys : store[k] = Payload

\* A clearAll has resolved that found a payload under a record key and no
\* Index.
C9_Witness ==
    \E p \in Procs :
        /\ ops[p].kind = "clearAll" /\ ops[p].pc = "resolved" /\ ops[p].alone
        /\ RECORDS_LIST_KEY \notin ops[p].snapshot
        /\ ops[p].snapshot \cap CacheKeys # {}

\* C10: when the only two calls made are addItem calls with distinct keys,
\* both have resolved and neither read the entry of the other, the Index
\* lists exactly one of the two keys: the write that landed last replaced
\* the whole list.
C10_LastWriterWins ==
    \A p, q \in Procs :
        ( /\ p # q /\ started = 2
          /\ ops[p].kind = "addItem" /\ ops[p].pc = "resolved"
          /\ ops[q].kind = "addItem" /\ ops[q].pc = "resolved"
          /\ ops[p].key # ops[q].key
          /\ ops[q].key \notin KeysOf(ListOf(ops[p].records))
          /\ ops[p].key \notin KeysOf(ListOf(ops[q].records)) ) =>
            (ops[p].key \in KeysOf(ListOf(Index))) # (ops[q].key \in KeysOf(ListOf(Index)))

\* Two concurrent addItem calls with distinct keys have both resolved and
\* the Index lists one entry.
C10_LostUpdate ==
    \E p, q \in Procs :
        /\ p # q /\ started = 2
        /\ ops[p].kind = "addItem" /\ ops[p].pc = "resolved"
        /\ ops[q].kind = "addItem" /\ ops[q].pc = "resolved"
        /\ ops[p].key # ops[q].key
        /\ Len(ListOf(Index)) = 1

\* C11: after an addItem( key, pageSeriesKey ) that ran with no other store
\* call in flight has resolved, the Index is the list it read without the
\* entry for key, in the order read, followed by one new last entry for key:
\* its timestamp is the time the call stamped it, which is not smaller than
\* the timestamp of the entry it replaced, and its pageSeriesKey is the
\* argument, or absent when none was given.
C11_UpsertContent ==
    \A p \in Procs :
        (ops[p].kind = "addItem" /\ ops[p].pc = "resolved" /\ ops[p].alone) =>
            LET previous == ListOf(ops[p].records)
                others == SelectSeq(previous, LAMBDA rec : rec.key # ops[p].key)
                last == [ key |-> ops[p].key, timestamp |-> ops[p].at,
                          pageSeriesKey |-> IF ops[p].series = NoSeries
                                            THEN Undefined ELSE ops[p].series ]
            IN /\ Index = Arr(others \o <<last>>)
               /\ \A i \in 1..Len(previous) :
                      previous[i].key = ops[p].key => previous[i].timestamp <= ops[p].at

\* an addItem has replaced the first of two entries by a later one with
\* another pageSeriesKey
C11_Witness ==
    \E p \in Procs :
        /\ ops[p].kind = "addItem" /\ ops[p].pc = "resolved" /\ ops[p].alone
        /\ Len(ListOf(ops[p].records)) = 2
        /\ ListOf(ops[p].records)[1].key = ops[p].key
        /\ ListOf(ops[p].records)[1].pageSeriesKey # ListOf(Index)[2].pageSeriesKey
        /\ ListOf(ops[p].records)[1].timestamp < ListOf(Index)[2].timestamp

\* C12: a resolved dropOlderThan( L ) splits the Index it read by age:
\* removedRecords is exactly the entries whose age (the time of the call
\* minus their timestamp) is strictly greater than L, retainedRecords is
\* exactly the other entries, both in the order read; no entry is in both,
\* every entry read is in one of them, and an entry whose age is L is
\* retained.
C12_AgePartition ==
    \A p \in Procs :
        (ops[p].kind = "dropOlderThan" /\ ops[p].pc = "resolved") =>
            LET records == ListOf(ops[p].records)
                removed == ops[p].removedRecords
                retained == ops[p].retainedRecords
                Age(rec) == ops[p].at - rec.timestamp
                In(rec, list) == \E i \in 1..Len(list) : list[i] = rec
            IN /\ removed = SelectSeq(records, LAMBDA rec : Age(rec) > ops[p].lifetime)
               /\ retained = SelectSeq(records, LAMBDA rec : Age(rec) <= ops[p].lifetime)
               /\ \A i \in 1..Len(records) :
                      /\ In(records[i], removed) # In(records[i], retained)
                      /\ Age(records[i]) = ops[p].lifetime => In(records[i], retained)
               /\ Len(removed) + Len(retained) = Len(records)

\* a dropOlderThan has removed an entry older than the lifetime and retained
\* one whose age is the lifetime
C12_Witness ==
    \E p \in Procs :
        /\ ops[p].kind = "dropOlderThan" /\ ops[p].pc = "resolved"
        /\ Len(ops[p].removedRecords) = 1 /\ Len(ops[p].retainedRecords) = 1
        /\ ops[p].at - ops[p].retainedRecords[1].timestamp = ops[p].lifetime

\* C13: a resolved getAllExcluding( key ) returns an array that holds no
\* entry for key and holds every other entry of the Index it read,
\* unchanged and in the same relative order; when the Index was absent it
\* returns an empty array.
C13_ExclusionCorrectness ==
    \A p \in Procs :
        (ops[p].kind = "getAllExcluding" /\ ops[p].pc = "resolved") =>
            LET records == ListOf(ops[p].records)
            IN /\ ops[p].result.type = "array"
               /\ ops[p].key \notin KeysOf(ops[p].result.v)
               /\ ops[p].result.v = SelectSeq(records, LAMBDA rec : rec.key # ops[p].key)
               /\ ops[p].records = Null => ops[p].result = Arr(<<>>)

\* a getAllExcluding has dropped the first of two entries and returned the
\* second
C13_Witness ==
    \E p \in Procs :
        /\ ops[p].kind = "getAllExcluding" /\ ops[p].pc = "resolved"
        /\ Len(ListOf(ops[p].records)) = 2
        /\ ListOf(ops[p].records)[1].key = ops[p].key
        /\ ops[p].result = Arr(<<ListOf(ops[p].records)[2]>>)

\* C14: addItem and removeItem write the Index only: every store call they
\* issue is a setItem of records-list, and while such a call runs with no
\* other store call in flight, and after it has resolved, the payloads in
\* the store are the ones that were there when it read the Index: none is
\* created, changed or deleted, the one under its own key included.
C14_IndexOnlyWriters ==
    \A p \in Procs :
        ops[p].kind \in {"addItem", "removeItem"} =>
            /\ \A r \in Calls(p) : r.type = "setItem" /\ r.key = RECORDS_LIST_KEY
            /\ (ops[p].alone /\ HasRead(p)) =>
                   \A k \in PayloadKeys :
                       store[k] = IF k \in ops[p].snapshot THEN Payload ELSE Null

\* a removeItem has removed the Index entry of a key whose payload was in
\* the store and still is
C14_Witness ==
    \E p \in Procs :
        /\ ops[p].kind = "removeItem" /\ ops[p].pc = "resolved" /\ ops[p].alone
        /\ ops[p].key \in KeysOf(ListOf(ops[p].records))
        /\ ops[p].key \notin KeysOf(ListOf(Index))
        /\ ops[p].key \in ops[p].snapshot
        /\ store[ops[p].key] = Payload

\* C15 as stated: a getAll on a store whose Index is absent resolves with an
\* empty array, and getAll does not change the store.
C15_EmptyWhenAbsent ==
    \A p \in Procs :
        (ops[p].kind = "getAll" /\ ops[p].pc = "resolved") =>
            /\ RECORDS_LIST_KEY \notin ops[p].snapshot => ops[p].result = Arr(<<>>)
            /\ ops[p].alone => keys = ops[p].snapshot /\ Index = ops[p].records

\* C15: a getAll on a store whose Index is absent resolves with null, the
\* value of the store for a key it does not hold, and not with an empty
\* array; on a store that holds an Index it resolves with that array; getAll
\* issues no store call but its read, and once it has resolved with no other
\* store call in flight the store is as it was, the Index being the value
\* returned.
C15_NullWhenAbsent ==
    \A p \in Procs :
        ops[p].kind = "getAll" =>
            /\ Calls(p) = {}
            /\ ops[p].pc = "resolved" =>
                   /\ ops[p].result = IF RECORDS_LIST_KEY \in ops[p].snapshot
                                      THEN Arr(ListOf(ops[p].records)) ELSE Null
                   /\ ops[p].alone => keys = ops[p].snapshot /\ Index = ops[p].result

\* a getAll has resolved on a store that holds payloads and no Index
C15_Witness ==
    \E p \in Procs :
        /\ ops[p].kind = "getAll" /\ ops[p].pc = "resolved" /\ ops[p].alone
        /\ RECORDS_LIST_KEY \notin ops[p].snapshot
        /\ CacheKeys \subseteq ops[p].snapshot
        /\ Index = Null

\* C16 as stated: a removeItem( key ) on an Index with no entry for key
\* resolves and leaves the stored value of the Index exactly as it was, an
\* absent Index staying absent.
C16_ValueUntouched ==
    \A p \in Procs :
        ( /\ ops[p].kind = "removeItem" /\ ops[p].pc = "resolved" /\ ops[p].alone
          /\ ops[p].key \notin KeysOf(ListOf(ops[p].records)) ) =>
            Index = ops[p].records

\* C16: a removeItem( key ) on an Index with no entry for key is not a
\* failure: it is rejected only when one of its store calls fails and it
\* never stays pending; once it has resolved with no other store call in
\* flight the Index holds the entries it held before, in their order.  It
\* does write the Index: an Index that was absent is stored as an empty
\* array.
C16_EntriesUntouched ==
    \A p \in Procs :
        ops[p].kind = "removeItem" =>
            /\ ops[p].pc # "hung"
            /\ ops[p].pc = "rejected" => ops[p].failed # "none"
            /\ ( /\ ops[p].pc = "resolved" /\ ops[p].alone
                 /\ ops[p].key \notin KeysOf(ListOf(ops[p].records)) ) =>
                   /\ Index = Arr(ListOf(ops[p].records))
                   /\ RECORDS_LIST_KEY \in keys

\* a removeItem on a store without Index has resolved and the Index is an
\* empty array
C16_Witness ==
    \E p \in Procs :
        /\ ops[p].kind = "removeItem" /\ ops[p].pc = "resolved" /\ ops[p].alone
        /\ ops[p].records = Null
        /\ Index = Arr(<<>>)

\* C17: getAllExcluding and dropOlderThan only read.  Every step of such a
\* call, the call itself, its resolution with a result and its rejection
\* when the read fails, leaves the store and the set of store calls in
\* flight as they were: no setItem and no removeItem is issued and the Index
\* and the payloads are the same before and after.
C17_ReadOnly ==
    [][ \A p \in Procs :
            ( /\ ops'[p] # ops[p]
              /\ \/ ops'[p].kind \in {"getAllExcluding", "dropOlderThan"}
                 \/ /\ ops[p].kind \in {"getAllExcluding", "dropOlderThan"}
                    /\ ops'[p].pc \in {"resolved", "rejected"} ) =>
                /\ store' = store
                /\ requests' = requests ]_vars

\* a dropOlderThan has resolved with an entry to remove, and the entry and
\* its payload are still in the store
C17_Witness ==
    \E p \in Procs :
        /\ ops[p].kind = "dropOlderThan" /\ ops[p].pc = "resolved" /\ ops[p].alone
        /\ Len(ops[p].removedRecords) = 1
        /\ Index = ops[p].records
        /\ store[ops[p].removedRecords[1].key] = Payload
        /\ requests = {}

\* C18: whatever the interleaving of concurrent addItem, removeItem,
\* pruneRecordsFrom, clearPageSeries and clearAll calls, no two entries of
\* the persisted Index have the same key, and no list on its way to the
\* store has: a lost update may drop an entry, it never duplicates one.
C18_UniqueUnderRaces ==
    LET Unique(list) ==
            Cardinality(KeysOf(list)) = Len(list)
    IN /\ Unique(ListOf(Index))
       /\ \A r \in requests : r.type = "setItem" => Unique(ListOf(r.value))

\* two addItem calls of one key have raced, each reading the Index before
\* the other wrote it, both have resolved, and the Index holds the key once
C18_Witness ==
    \E p, q \in Procs :
        /\ p # q
        /\ ops[p].kind = "addItem" /\ ops[p].pc = "resolved"
        /\ ops[q].kind = "addItem" /\ ops[q].pc = "resolved"
        /\ ops[p].key = ops[q].key
        /\ ops[p].records = Null /\ ops[q].records = Null
        /\ KeysOf(ListOf(Index)) = {ops[p].key}

\* C19: in every reachable state, whatever the interleaving of the calls,
\* the entries of the persisted Index are in non-decreasing order of
\* timestamp, and so are the lists on their way to the store; hence the
\* removedRecords that dropOlderThan computes for pruneRecordsFrom, the
\* entries older than the lifetime, are a prefix of the Index it read and
\* the retainedRecords are the rest.
C19_TimestampOrder ==
    LET Ordered(list) ==
            \A i, j \in 1..Len(list) : i < j => list[i].timestamp <= list[j].timestamp
    IN /\ Ordered(ListOf(Index))
       /\ \A r \in requests : r.type = "setItem" => Ordered(ListOf(r.value))
       /\ \A p \in Procs :
              (ops[p].kind \in {"pruneRecordsFrom", "dropOlderThan"} /\ HasRead(p)) =>
                  ListOf(ops[p].records) = ops[p].removedRecords \o ops[p].retainedRecords

\* the Index holds two entries, the older one first
C19_Witness ==
    /\ Len(ListOf(Index)) = 2
    /\ ListOf(Index)[1].timestamp < ListOf(Index)[2].timestamp

\* C20: in sequential use of a store that never fails, by a caller who has
\* the payload of a key in the store whenever it calls addItem for it, the
\* payload of every key listed in the Index is in the store whenever no
\* call is in progress.
C20_NoDanglingEntry ==
    (\A q \in Procs : ops[q].pc = "idle") =>
        \A k \in KeysOf(ListOf(Index)) : store[k] = Payload

====
